---- MODULE Spec2Model ----
(***************************************************************************)
(* Model of package template (template.go): a CSV dataset with a lazily    *)
(* built sorted header index, the adapter that rewrites named template     *)
(* actions into positional ones, and the row cursor of Template.           *)
(*                                                                         *)
(* Strings and byte slices are sequences of byte values (ASCII codes):     *)
(*   9 tab, 10 newline, 32 space, 46 '.', 48.. digits, 97 'a', 98 'b',     *)
(*   99 'c', 120 'x', 123 '{', 125 '}'.                                    *)
(* Go positions are 0-based; TLA+ sequences are 1-based, so the element at *)
(* Go position p of a slice s is s[p + 1].  A nil slice is the empty       *)
(* sequence (length 0), a nil pointer is a record whose exists is FALSE.   *)
(*                                                                         *)
(* The specifications share the variables and the actions:                 *)
(*   Spec        a program using the exported functions: NewCSV on a       *)
(*               table, then AdaptTemplateToCSV / NewTemplate on one       *)
(*               template, then Next and ExecuteAll on the Template built; *)
(*   SpecHeader  FindKeyIndex called directly on the header of a dataset;  *)
(*   SpecRaw     Next and ExecuteAll on Template values filled in by       *)
(*               package code (any adapted template over any rows);        *)
(*   SpecShared  goroutines calling Next, each on a Template of its own,   *)
(*               all built over one dataset, statement by statement;       *)
(*   SpecTrim    AdaptTemplateToCSV on one action spelled in many ways;    *)
(*   SpecCaller  the calls of Spec and FindKeyIndex, with a caller that    *)
(*               writes to its byte buffer and to the rows it was returned.*)
(***************************************************************************)
EXTENDS Integers, Sequences, FiniteSets, TLC

VARIABLES
    input,      \* the records encoding/csv reads from the bytes handed to NewCSV
    tmpl,       \* the template bytes the program works on (read = FALSE: none yet)
    csv,        \* the *CSV the program holds (exists = FALSE: none built)
    t,          \* the *Template the program holds (exists = FALSE: none built)
    ret,        \* the values the last call returned
    panicked,   \* a call ended in a run-time panic (the program is aborted)
    calls,      \* history: the calls made on t since it was built (see Count)
    memo,       \* history: for each key looked up, the pair of the key and the
                \* position the first FindKeyIndex call for it returned
    caller,     \* the storage the caller's slices share with the package's
    renderers   \* the Templates goroutines render csv through, one each

vars == <<input, tmpl, csv, t, ret, panicked, calls, memo, caller, renderers>>

----------------------------------------------------------------------------
(* Bounds of the model.                                                    *)

MaxCols == 2
MaxRows == 2
MaxSegs == 2

----------------------------------------------------------------------------
(* Byte strings.                                                           *)

\* Go's string comparison s < t: bytewise lexicographic.
RECURSIVE LessFrom(_, _, _)
LessFrom(s, u, i) ==
    IF i > Len(u) THEN FALSE
    ELSE IF i > Len(s) THEN TRUE
    ELSE IF s[i] < u[i] THEN TRUE
    ELSE IF s[i] > u[i] THEN FALSE
    ELSE LessFrom(s, u, i + 1)

Less(s, u) == LessFrom(s, u, 1)

\* strings.HasSuffix
HasSuffix(s, suf) ==
    /\ Len(s) >= Len(suf)
    /\ SubSeq(s, Len(s) - Len(suf) + 1, Len(s)) = suf

\* strings.Trim(s, cutset): drop the leading and the trailing bytes in cutset.
Trim(s, cutset) ==
    LET keep == {i \in 1..Len(s) : s[i] \notin cutset}
    IN  IF keep = {} THEN <<>>
        ELSE LET lo == CHOOSE i \in keep : \A j \in keep : i <= j
                 hi == CHOOSE i \in keep : \A j \in keep : j <= i
             IN  SubSeq(s, lo, hi)

\* strings.TrimSpace, on the ASCII white space the model's names can hold.
TrimSpace(s) == Trim(s, {9, 10, 13, 32})

\* fmt's %d of a non-negative int.
RECURSIVE FormatInt(_)
FormatInt(i) ==
    IF i < 10 THEN <<48 + i>> ELSE Append(FormatInt(i \div 10), 48 + (i % 10))

RECURSIVE Concat(_)
Concat(ss) == IF ss = <<>> THEN <<>> ELSE Head(ss) \o Concat(Tail(ss))

----------------------------------------------------------------------------
(* Errors, by the sentinel they wrap.                                      *)

NoErr              == "nil"
ErrInvalidFile     == "invalid file"
ErrInvalidCSV      == "invalid csv"
ErrInvalidTemplate == "invalid template"
ErrEOF             == "EOF"
errNoToken         == "no token found"
ErrParse           == "error creating new text/template.Template"
ErrExec            == "template: error calling index"
ErrPanic           == "panic: index out of range"

----------------------------------------------------------------------------
(* FILE                                                                    *)

NoFile == [name |-> <<>>, mimetype |-> <<>>, b |-> <<>>]

NewFile(name, mimetype, b) ==
    IF Len(TrimSpace(name)) = 0
    THEN [err |-> ErrInvalidFile, file |-> NoFile]
    ELSE IF Len(TrimSpace(mimetype)) = 0
    THEN [err |-> ErrInvalidFile, file |-> NoFile]
    ELSE [err |-> NoErr,
          file |-> [name |-> TrimSpace(name), mimetype |-> TrimSpace(mimetype), b |-> b]]

----------------------------------------------------------------------------
(* CSV_HEADER and its sorted index.                                        *)

header_field(key, index) == [key |-> key, index |-> index]

Arrangements(n) == {p \in [1..n -> 1..n] : \A i, j \in 1..n : i # j => p[i] # p[j]}

\* The index left in header order, unsorted.
SortedHeaders_HeaderOrder(header) ==
    { [i \in 1..Len(header) |-> header_field(header[i], i - 1)] }

\* The outcomes of sort.Slice on the (key, index) pairs of the header, in header
\* order: every arrangement in which no pair precedes one of a smaller key.
\* sort.Slice is not stable, so pairs of equal keys may end in either order.
SortedHeaders(header) ==
    LET n == Len(header)
    IN  { [i \in 1..n |-> header_field(header[p[i]], p[i] - 1)] :
            p \in { q \in Arrangements(n) :
                      \A i \in 1..(n - 1) : ~Less(header[q[i + 1]], header[q[i]]) } }

\* sort.Search(n, func(i) bool { return sorted[i].key >= key }): binary search
\* over positions 0..n-1, returning n when the predicate is nowhere true.
RECURSIVE SearchFrom(_, _, _, _)
SearchFrom(sorted, key, i, j) ==
    IF i < j
    THEN LET h == (i + j) \div 2
         IN  IF Less(sorted[h + 1].key, key)
             THEN SearchFrom(sorted, key, h + 1, j)
             ELSE SearchFrom(sorted, key, i, h)
    ELSE i

Search(sorted, key) == SearchFrom(sorted, key, 0, Len(sorted))

\* Lookup numbering the header positions from 1.
Lookup_CountsFromOne(sorted, key) ==
    LET i == Search(sorted, key)
    IN  IF i >= Len(sorted) THEN [status |-> "panic", index |-> -1]
        ELSE IF sorted[i + 1].key # key THEN [status |-> "ok", index |-> -1]
        ELSE [status |-> "ok", index |-> sorted[i + 1].index + 1]

\* Lookup returning the position in the sorted index, not the header position.
Lookup_SortedPosition(sorted, key) ==
    LET i == Search(sorted, key)
    IN  IF i >= Len(sorted) THEN [status |-> "panic", index |-> -1]
        ELSE IF sorted[i + 1].key # key THEN [status |-> "ok", index |-> -1]
        ELSE [status |-> "ok", index |-> i]

\* The part of FindKeyIndex after the index is built: status "panic" is the
\* index-out-of-range panic of sorted_header[i] with i = len(sorted_header).
Lookup(sorted, key) ==
    LET i == Search(sorted, key)
    IN  IF i = -1 THEN [status |-> "ok", index |-> -1]
        ELSE IF i >= Len(sorted) THEN [status |-> "panic", index |-> -1]
        ELSE IF sorted[i + 1].key # key THEN [status |-> "ok", index |-> -1]
        ELSE [status |-> "ok", index |-> sorted[i + 1].index]

----------------------------------------------------------------------------
(* The scanner of the adapter.  A *bufio.Reader over the template bytes b  *)
(* is the number pos of bytes read so far: ReadByte returns b[pos + 1], or  *)
(* io.EOF once pos = Len(b).  bytes.Reader returns no other error.          *)

OpenDelim  == <<123, 123>>
CloseDelim == <<125, 125>>

\* The loop of readUntilNextTemplateActionEnd, entered with the reader at pos
\* and the strings.Builder holding buffer.
RECURSIVE readEndLoop(_, _, _)
readEndLoop(b, pos, buffer) ==
    IF pos >= Len(b)
    THEN [got |-> buffer, pos |-> pos, err |-> errNoToken]
    ELSE LET tmp == Append(buffer, b[pos + 1])
         IN  IF HasSuffix(tmp, CloseDelim)
             THEN [got |-> tmp, pos |-> pos + 1, err |-> NoErr]
             ELSE readEndLoop(b, pos + 1, tmp)

readUntilNextTemplateActionEnd(b, pos) == readEndLoop(b, pos, <<>>)

\* The loop of readUntilNextTemplateAction.
RECURSIVE readOpenLoop(_, _, _)
readOpenLoop(b, pos, buffer) ==
    IF pos >= Len(b)
    THEN [got |-> buffer, pos |-> pos, err |-> errNoToken]
    ELSE LET tmp == Append(buffer, b[pos + 1])
         IN  IF HasSuffix(tmp, OpenDelim)
             THEN [got |-> tmp, pos |-> pos + 1, err |-> NoErr]
             ELSE readOpenLoop(b, pos + 1, tmp)

readUntilNextTemplateAction(b, pos) == readOpenLoop(b, pos, <<>>)

\* The bytes strings.Trim removes around an action's name: " \t\n.}".
TrimCutset == {32, 9, 10, 46, 125}

\* The rewritten action counting columns from 1.
IndexAction_FromOne(i) ==
    <<32, 105, 110, 100, 101, 120, 32, 46, 32>> \o FormatInt(i + 1) \o <<32, 125, 125>>

\* fmt.Sprintf(" index . %d }}", i)
IndexAction(i) ==
    <<32, 105, 110, 100, 101, 120, 32, 46, 32>> \o FormatInt(i) \o <<32, 125, 125>>

\* The for loop of AdaptTemplateToCSV, entered with the reader at pos, the
\* bytes.Buffer holding results and looked telling whether FindKeyIndex has
\* been called.  sorted is the index FindKeyIndex works on.
\* status is "ok" (results.Bytes(), nil), "invalid" (nil, ErrInvalidTemplate)
\* or "panic"; reads counts the bytes taken from the reader.
RECURSIVE adaptLoop(_, _, _, _, _)

\* adaptLoop returning what it has written when the action end is missing.
adaptLoop_Truncating(b, pos, results, sorted, looked) ==
    LET open == readUntilNextTemplateAction(b, pos)
        res1 == results \o open.got
    IN  IF open.err # NoErr
        THEN [status |-> "ok", out |-> res1, looked |-> looked, reads |-> open.pos]
        ELSE LET close == readUntilNextTemplateActionEnd(b, open.pos)
                 got   == Trim(close.got, TrimCutset)
                 find  == Lookup(sorted, got)
             IN  IF close.err # NoErr
                 THEN [status |-> "ok", out |-> res1, looked |-> looked, reads |-> close.pos]
                 ELSE IF find.status = "panic"
                 THEN [status |-> "panic", out |-> <<>>, looked |-> TRUE, reads |-> close.pos]
                 ELSE IF find.index = -1
                 THEN [status |-> "invalid", out |-> <<>>, looked |-> TRUE,
                       reads |-> close.pos]
                 ELSE adaptLoop(b, close.pos, res1 \o IndexAction(find.index), sorted, TRUE)

adaptLoop(b, pos, results, sorted, looked) ==
    LET open == readUntilNextTemplateAction(b, pos)
        res1 == results \o open.got
    IN  IF open.err # NoErr
        THEN [status |-> "ok", out |-> res1, looked |-> looked, reads |-> open.pos]
        ELSE LET close == readUntilNextTemplateActionEnd(b, open.pos)
             IN  IF close.err # NoErr
                 THEN [status |-> "invalid", out |-> <<>>, looked |-> looked,
                       reads |-> close.pos]
                 ELSE LET got  == Trim(close.got, TrimCutset)
                          find == Lookup(sorted, got)
                      IN  IF find.status = "panic"
                          THEN [status |-> "panic", out |-> <<>>, looked |-> TRUE,
                                reads |-> close.pos]
                          ELSE IF find.index = -1
                          THEN [status |-> "invalid", out |-> <<>>, looked |-> TRUE,
                                reads |-> close.pos]
                          ELSE adaptLoop(b, close.pos, res1 \o IndexAction(find.index),
                                         sorted, TRUE)

AdaptTemplateToCSVResult(b, sorted) == adaptLoop(b, 0, <<>>, sorted, FALSE)

----------------------------------------------------------------------------
(* text/template, on the adapted templates: text and the actions           *)
(* "{{ index . N }}" that the adapter writes.                              *)

TextNode(s)  == [kind |-> "text", text |-> s, index |-> 0]
IndexNode(i) == [kind |-> "index", text |-> <<>>, index |-> i]

\* The position (1-based) of the first occurrence of the two bytes d in s at
\* or after from, or 0 when there is none.
FirstAt(s, d, from) ==
    LET hits == {i \in from..(Len(s) - 1) : s[i] = d[1] /\ s[i + 1] = d[2]}
    IN  IF hits = {} THEN 0 ELSE CHOOSE i \in hits : \A j \in hits : i <= j

IsDigits(s) == Len(s) > 0 /\ \A i \in 1..Len(s) : s[i] \in 48..57

RECURSIVE ParseInt(_)
ParseInt(s) ==
    IF Len(s) = 0 THEN 0
    ELSE 10 * ParseInt(SubSeq(s, 1, Len(s) - 1)) + (s[Len(s)] - 48)

\* The pipeline between the delimiters: "index . N" between spaces.
ParseAction(body) ==
    LET prefix == <<32, 105, 110, 100, 101, 120, 32, 46, 32>>
        n      == Len(body)
    IN  IF /\ n >= Len(prefix) + 2
           /\ SubSeq(body, 1, Len(prefix)) = prefix
           /\ body[n] = 32
           /\ IsDigits(SubSeq(body, Len(prefix) + 1, n - 1))
        THEN [err |-> NoErr, node |-> IndexNode(ParseInt(SubSeq(body, Len(prefix) + 1, n - 1)))]
        ELSE [err |-> ErrParse, node |-> TextNode(<<>>)]

\* template.New(name).Parse(text): the node list, text from position from on.
RECURSIVE parseFrom(_, _, _)
parseFrom(text, from, nodes) ==
    LET o == FirstAt(text, OpenDelim, from)
    IN  IF o = 0
        THEN [err |-> NoErr, nodes |-> Append(nodes, TextNode(SubSeq(text, from, Len(text))))]
        ELSE LET c == FirstAt(text, CloseDelim, o + 2)
             IN  IF c = 0
                 THEN [err |-> ErrParse, nodes |-> <<>>]
                 ELSE LET act == ParseAction(SubSeq(text, o + 2, c - 1))
                      IN  IF act.err # NoErr
                          THEN [err |-> ErrParse, nodes |-> <<>>]
                          ELSE parseFrom(text, c + 2,
                                         nodes \o <<TextNode(SubSeq(text, from, o - 1)), act.node>>)

Parse(text) == parseFrom(text, 1, <<>>)

\* (*template.Template).Execute(writer, row): the bytes written and the error.
\* index fails on a position outside the row; what was written stays written.
RECURSIVE Execute(_, _, _)
Execute(nodes, row, written) ==
    IF nodes = <<>> THEN [err |-> NoErr, out |-> written]
    ELSE LET n == Head(nodes)
         IN  IF n.kind = "text"
             THEN Execute(Tail(nodes), row, written \o n.text)
             ELSE IF n.index < Len(row)
             THEN Execute(Tail(nodes), row, written \o row[n.index + 1])
             ELSE [err |-> ErrExec, out |-> written]

----------------------------------------------------------------------------
(* CSV                                                                     *)

NoCSV == [exists |-> FALSE, file |-> NoFile, header |-> <<>>, sorted_header |-> <<>>,
          rows |-> <<>>]

\* (*csv.Reader).Read for the header row: the first record, or io.EOF.
ReaderRead(records) ==
    IF records = <<>> THEN [err |-> ErrEOF, record |-> <<>>]
    ELSE [err |-> NoErr, record |-> Head(records)]

\* (*csv.Reader).ReadAll after that Read: FieldsPerRecord is 0, so the first
\* Read fixed the field count and a record of another count is ErrFieldCount.
ReaderReadAll(records, fields) ==
    IF \E i \in 1..Len(records) : Len(records[i]) # fields
    THEN [err |-> "wrong number of fields", records |-> <<>>]
    ELSE [err |-> NoErr, records |-> records]

\* The loop over the body rows of NewCSV: the rows stored, or the error of the
\* first row whose length is not the header's.
RECURSIVE appendRows(_, _, _)
appendRows(want, records, rows) ==
    IF records = <<>> THEN [err |-> NoErr, rows |-> rows]
    ELSE IF want # Len(Head(records)) THEN [err |-> ErrInvalidCSV, rows |-> <<>>]
    ELSE appendRows(want, Tail(records), Append(rows, Head(records)))

\* NewCSV storing the body rows whatever their length.
NewCSVResult_AnyWidth(name, mimetype, records) ==
    LET f == NewFile(name, mimetype, records)
    IN  IF f.err # NoErr THEN [err |-> f.err, csv |-> NoCSV]
        ELSE IF records = <<>> THEN [err |-> ErrInvalidCSV, csv |-> NoCSV]
        ELSE [err |-> NoErr,
              csv |-> [exists |-> TRUE, file |-> f.file, header |-> Head(records),
                       sorted_header |-> <<>>, rows |-> Tail(records)]]

\* NewCSV(name, mimetype, b), records being what encoding/csv reads from b.
NewCSVResult(name, mimetype, records) ==
    LET f == NewFile(name, mimetype, records)
    IN  IF f.err # NoErr THEN [err |-> f.err, csv |-> NoCSV]
        ELSE LET h == ReaderRead(records)
             IN  IF h.err # NoErr THEN [err |-> ErrInvalidCSV, csv |-> NoCSV]
                 ELSE LET all == ReaderReadAll(Tail(records), Len(h.record))
                      IN  IF all.err # NoErr THEN [err |-> ErrInvalidCSV, csv |-> NoCSV]
                          ELSE LET body == appendRows(Len(h.record), all.records, <<>>)
                               IN  IF body.err # NoErr
                                   THEN [err |-> ErrInvalidCSV, csv |-> NoCSV]
                                   ELSE [err |-> NoErr,
                                         csv |-> [exists |-> TRUE,
                                                  file |-> f.file,
                                                  header |-> h.record,
                                                  sorted_header |-> <<>>,
                                                  rows |-> body.rows]]

----------------------------------------------------------------------------
(* Template                                                                *)

NoTemplate == [exists |-> FALSE, raw_file |-> NoFile, raw_adapted_template |-> <<>>,
               adapted_template |-> <<>>, position |-> 0]

\* NewTemplate(name, mimetype, b, csv), sorted being the index FindKeyIndex
\* works on.  looked tells whether FindKeyIndex was called (the index built).
NewTemplateResult(name, mimetype, b, sorted) ==
    LET f == NewFile(name, mimetype, b)
    IN  IF f.err # NoErr
        THEN [status |-> "error", err |-> f.err, looked |-> FALSE, t |-> NoTemplate]
        ELSE LET a == AdaptTemplateToCSVResult(f.file.b, sorted)
             IN  IF a.status = "panic"
                 THEN [status |-> "panic", err |-> NoErr, looked |-> TRUE, t |-> NoTemplate]
                 ELSE IF a.status = "invalid"
                 THEN [status |-> "error", err |-> ErrInvalidTemplate, looked |-> a.looked,
                       t |-> NoTemplate]
                 ELSE LET parsed == Parse(a.out)
                      IN  IF parsed.err # NoErr
                          THEN [status |-> "error", err |-> ErrParse, looked |-> a.looked,
                                t |-> NoTemplate]
                          ELSE [status |-> "ok", err |-> NoErr, looked |-> a.looked,
                                t |-> [exists |-> TRUE,
                                       raw_file |-> f.file,
                                       raw_adapted_template |-> a.out,
                                       adapted_template |-> parsed.nodes,
                                       position |-> 0]]

\* Next returning the last row again, with io.EOF, once the rows are exhausted.
NextResult_StaleRow(adapted_template, position, rows) ==
    IF position >= Len(rows)
    THEN [err |-> ErrEOF, out |-> <<>>,
          row |-> IF Len(rows) = 0 THEN <<>> ELSE rows[Len(rows)],
          position |-> position]
    ELSE LET csvrow == rows[position + 1]
             run    == Execute(adapted_template, csvrow, <<>>)
         IN  [err |-> run.err, out |-> run.out, row |-> csvrow, position |-> position + 1]

\* Next starting over from the first row once the rows are exhausted.
NextResult_Rewind(adapted_template, position, rows) ==
    IF position >= Len(rows)
    THEN [err |-> ErrEOF, out |-> <<>>, row |-> <<>>, position |-> 0]
    ELSE LET csvrow == rows[position + 1]
             run    == Execute(adapted_template, csvrow, <<>>)
         IN  [err |-> run.err, out |-> run.out, row |-> csvrow, position |-> position + 1]

\* Next moving the cursor only past a row whose execution succeeded.
NextResult_KeepsFailedRow(adapted_template, position, rows) ==
    IF position >= Len(rows)
    THEN [err |-> ErrEOF, out |-> <<>>, row |-> <<>>, position |-> position]
    ELSE LET csvrow == rows[position + 1]
             run    == Execute(adapted_template, csvrow, <<>>)
         IN  [err |-> run.err, out |-> run.out, row |-> csvrow,
              position |-> IF run.err = NoErr THEN position + 1 ELSE position]

\* (*Template).Next with the cursor at position over rows: what it returns and
\* where it leaves the cursor.
NextResult(adapted_template, position, rows) ==
    IF position >= Len(rows)
    THEN [err |-> ErrEOF, out |-> <<>>, row |-> <<>>, position |-> position]
    ELSE LET csvrow == rows[position + 1]
             run    == Execute(adapted_template, csvrow, <<>>)
         IN  [err |-> run.err, out |-> run.out, row |-> csvrow, position |-> position + 1]

\* The for loop of ExecuteAll, entered with the cursor at position and the
\* two result slices holding outs and rows.
RECURSIVE executeAllLoop(_, _, _, _, _)
executeAllLoop(adapted_template, position, all, outs, rows) ==
    LET n == NextResult(adapted_template, position, all)
    IN  IF n.err # NoErr
        THEN IF n.err # ErrEOF
             THEN [err |-> n.err, outs |-> outs, rows |-> rows, position |-> n.position]
             ELSE [err |-> NoErr, outs |-> outs, rows |-> rows, position |-> n.position]
        ELSE executeAllLoop(adapted_template, n.position, all,
                            Append(outs, n.out), Append(rows, n.row))

\* ExecuteAll rendering the whole dataset, from its first row.
ExecuteAllResult_FromFirstRow(adapted_template, position, all) ==
    executeAllLoop(adapted_template, 0, all, <<>>, <<>>)

\* ExecuteAll handing the io.EOF of the last Next to its caller.
ExecuteAllResult_ReportsEOF(adapted_template, position, all) ==
    LET r == executeAllLoop(adapted_template, position, all, <<>>, <<>>)
    IN  [r EXCEPT !.err = IF r.err = NoErr THEN ErrEOF ELSE r.err]

ExecuteAllResult(adapted_template, position, all) ==
    executeAllLoop(adapted_template, position, all, <<>>, <<>>)

----------------------------------------------------------------------------
(* Inputs.                                                                 *)

HeaderNames == {<<97>>, <<99>>}                      \* "a", "c"
Headers     == UNION {[1..n -> HeaderNames] : n \in 1..MaxCols}

\* The field of body row r (from 1) in column c (from 1): two digits, so
\* that every field of a table differs from every other.
Field(r, c) == <<48 + r, 48 + c>>

BodyOf(widths) == [r \in 1..Len(widths) |-> [c \in 1..widths[r] |-> Field(r, c)]]

Bodies == {BodyOf(w) : w \in UNION {[1..k -> 1..MaxCols] : k \in 0..MaxRows}}

\* The tables handed to NewCSV: no record at all, or a header and a body.
Tables == {<<>>} \cup {<<h>> \o body : h \in Headers, body \in Bodies}

\* The (name, mimetype) pairs files are made with:
\*   (" ", "t"), (" f", ""), (" f", "t ")
FileArgs == { <<<<32>>, <<116>>>>, <<<<32, 102>>, <<>>>>, <<<<32, 102>>, <<116, 32>>>> }

\* The pieces templates are assembled from:
\*   x  {  {{  }}  {{a}}  {{ c }}  {{b}}
Segs == { <<120>>, <<123>>, <<123, 123>>, <<125, 125>>,
          <<123, 123, 97, 125, 125>>,
          <<123, 123, 32, 99, 32, 125, 125>>,
          <<123, 123, 98, 125, 125>> }

TemplateBytes == {Concat(ss) : ss \in UNION {[1..n -> Segs] : n \in 0..MaxSegs}}

\* The keys looked up directly: "", "a", "b", "c", "d".
LookupKeys == {<<>>, <<97>>, <<98>>, <<99>>, <<100>>}

----------------------------------------------------------------------------
(* The state machine.                                                      *)

\* reads is the number of bytes AdaptTemplateToCSV took from its reader.
NoRet == [op |-> "none", err |-> NoErr, out |-> <<>>, row |-> <<>>, outs |-> <<>>,
          rows |-> <<>>, index |-> -1, arg |-> <<>>, reads |-> 0]

NoCalls == [next |-> 0, all |-> 0, from |-> 0, prev |-> <<"none", NoErr>>]

\* Clone handing back the array it was given.
Clone_SameArray(array) == array

\* Backing arrays, by who else holds them: 0 is an array of the slice's own,
\* k >= 1 the array of the k-th row the dataset stores, -1 the array of the
\* byte buffer the caller handed to NewCSV.
\* bytes.Clone and slices.Clone copy into a fresh array.
Clone(array) == 0

\* caller.b is the array FILE.b points into, caller.rows the arrays of the
\* rows the last Next or ExecuteAll call returned, in order.
NoCaller == [b |-> 0, rows |-> <<>>]

NoBytes == [read |-> FALSE, b |-> <<>>]

Init ==
    /\ input \in Tables
    /\ tmpl = NoBytes
    /\ csv = NoCSV
    /\ t = NoTemplate
    /\ ret = NoRet
    /\ panicked = FALSE
    /\ calls = NoCalls
    /\ memo = {}
    /\ caller = NoCaller
    /\ renderers = <<>>

\* FindKeyIndex building the index anew on every call.
Indexes_Rebuilt == SortedHeaders(csv.header)

\* The index a call of FindKeyIndex may work on: the memoized one, or any
\* outcome of the build when none is memoized yet.
Indexes == IF csv.sorted_header = <<>> THEN SortedHeaders(csv.header)
           ELSE {csv.sorted_header}

\* The template bytes a call may be given: the program works on one template
\* file, fixed by the first call that uses it.
Given == IF tmpl.read THEN {tmpl.b} ELSE TemplateBytes

\* csv, err := NewCSV(name, mimetype, b)
NewCSV(name, mimetype) ==
    /\ ~panicked
    /\ ~csv.exists
    /\ LET r == NewCSVResult(name, mimetype, input)
       IN  /\ csv' = r.csv
           /\ ret' = [NoRet EXCEPT !.op = "NewCSV", !.err = r.err]
           /\ caller' = [b |-> IF r.err = NoErr THEN Clone(-1) ELSE 0, rows |-> <<>>]
    /\ UNCHANGED <<input, tmpl, t, panicked, calls, memo, renderers>>

\* csv.header.FindKeyIndex(key)
FindKeyIndex(key) ==
    /\ ~panicked
    /\ csv.exists
    /\ \E sorted \in Indexes :
         LET r == Lookup(sorted, key)
         IN  /\ csv' = [csv EXCEPT !.sorted_header = sorted]
             /\ panicked' = (r.status = "panic")
             /\ ret' = [NoRet EXCEPT !.op = "FindKeyIndex", !.index = r.index, !.arg = key,
                                     !.err = IF r.status = "panic" THEN ErrPanic ELSE NoErr]
             /\ memo' = IF r.status = "ok" /\ ~\E m \in memo : m[1] = key
                         THEN memo \cup {<<key, r.index>>}
                         ELSE memo
    /\ caller' = [caller EXCEPT !.rows = <<>>]
    /\ UNCHANGED <<input, tmpl, t, calls, renderers>>

\* AdaptTemplateToCSV(csv, file) on a FILE holding the bytes b
AdaptTemplateToCSV(b) ==
    /\ ~panicked
    /\ csv.exists
    /\ ~t.exists
    /\ tmpl' = [read |-> TRUE, b |-> b]
    /\ \E sorted \in Indexes :
         LET r == AdaptTemplateToCSVResult(b, sorted)
         IN  /\ csv' = IF r.looked THEN [csv EXCEPT !.sorted_header = sorted] ELSE csv
             /\ panicked' = (r.status = "panic")
             /\ ret' = [NoRet EXCEPT !.op = "AdaptTemplateToCSV", !.arg = b, !.out = r.out,
                                     !.reads = r.reads,
                                     !.err = CASE r.status = "ok" -> NoErr
                                               [] r.status = "invalid" -> ErrInvalidTemplate
                                               [] OTHER -> ErrPanic]
    /\ UNCHANGED <<input, t, calls, memo, caller, renderers>>

\* t, err := NewTemplate(name, mimetype, b, csv)
NewTemplate(name, mimetype, b) ==
    /\ ~panicked
    /\ csv.exists
    /\ ~t.exists
    /\ tmpl' = [read |-> TRUE, b |-> b]
    /\ \E sorted \in Indexes :
         LET r == NewTemplateResult(name, mimetype, b, sorted)
         IN  /\ csv' = IF r.looked THEN [csv EXCEPT !.sorted_header = sorted] ELSE csv
             /\ panicked' = (r.status = "panic")
             /\ t' = r.t
             /\ ret' = [NoRet EXCEPT !.op = "NewTemplate", !.arg = b,
                                     !.err = IF r.status = "panic" THEN ErrPanic ELSE r.err]
    /\ calls' = NoCalls
    /\ UNCHANGED <<input, memo, caller, renderers>>

\* calls.all is 1 once ExecuteAll has been called on t; until then calls.next
\* counts the Next calls made on t, up to MaxRows + 2 (two past the last row).
\* calls.from is the cursor position at which the last call on t was entered.
\* calls.prev is what the call before the last call on t was and the error
\* it returned.
Count(n) == IF n < MaxRows + 2 THEN n + 1 ELSE n

\* out, row, err := t.Next()
TemplateNext ==
    /\ ~panicked
    /\ t.exists
    /\ LET r == NextResult(t.adapted_template, t.position, csv.rows)
       IN  /\ t' = [t EXCEPT !.position = r.position]
           /\ ret' = [NoRet EXCEPT !.op = "Next", !.err = r.err, !.out = r.out,
                                   !.row = r.row]
           /\ caller' = [caller EXCEPT !.rows = IF r.position > t.position
                                                 THEN <<Clone(r.position)>> ELSE <<>>]
    /\ calls' = [next |-> IF calls.all = 0 THEN Count(calls.next) ELSE 0,
                  all  |-> calls.all,
                  from |-> t.position,
                  prev |-> <<ret.op, ret.err>>]
    /\ UNCHANGED <<input, tmpl, csv, panicked, memo, renderers>>

\* outs, rows, err := t.ExecuteAll()
ExecuteAll ==
    /\ ~panicked
    /\ t.exists
    /\ LET r == ExecuteAllResult(t.adapted_template, t.position, csv.rows)
       IN  /\ t' = [t EXCEPT !.position = r.position]
           /\ ret' = [NoRet EXCEPT !.op = "ExecuteAll", !.err = r.err, !.outs = r.outs,
                                   !.rows = r.rows]
           /\ caller' = [caller EXCEPT !.rows = [i \in 1..Len(r.rows) |->
                                                    Clone(t.position + i)]]
    /\ calls' = [next |-> 0, all |-> 1, from |-> t.position, prev |-> <<ret.op, ret.err>>]
    /\ UNCHANGED <<input, tmpl, csv, panicked, memo, renderers>>

Next ==
    \/ \E a \in FileArgs : NewCSV(a[1], a[2])
    \/ \E b \in Given : AdaptTemplateToCSV(b)
    \/ \E a \in FileArgs, b \in Given : NewTemplate(a[1], a[2], b)
    \/ TemplateNext
    \/ ExecuteAll

Spec == Init /\ [][Next]_vars

----------------------------------------------------------------------------
(* The header index on its own.  CSV.header is not exported, so only       *)
(* package code calls FindKeyIndex directly: on the header of a dataset    *)
(* that has been built, any number of times, with any keys.                *)

InitHeader ==
    /\ input \in {<<h>> : h \in Headers}
    /\ tmpl = NoBytes
    /\ csv = NewCSVResult(<<102>>, <<116>>, input).csv
    /\ t = NoTemplate
    /\ ret = NoRet
    /\ panicked = FALSE
    /\ calls = NoCalls
    /\ memo = {}
    /\ caller = NoCaller
    /\ renderers = <<>>

NextHeader == \E key \in LookupKeys : FindKeyIndex(key)

SpecHeader == InitHeader /\ [][NextHeader]_vars

----------------------------------------------------------------------------
(* Template values as the struct admits them.  NewTemplate only builds     *)
(* templates whose every index is inside every row; the error paths of     *)
(* Next and ExecuteAll are those of a Template that package code fills in  *)
(* itself: any adapted template over any rows.                             *)

\* The pieces adapted templates are assembled from:
\*   x   {{ index . 0 }}   {{ index . 1 }}
RawSegs == { <<120>>, <<123, 123>> \o IndexAction(0), <<123, 123>> \o IndexAction(1) }

RawTemplates == {Concat(ss) : ss \in UNION {[1..n -> RawSegs] : n \in 0..MaxSegs}}

InitRaw ==
    /\ input = <<>>
    /\ tmpl = NoBytes
    /\ \E h \in {x \in Headers : Len(x) = MaxCols}, body \in Bodies :
          csv = [exists |-> TRUE, file |-> NoFile, header |-> h, sorted_header |-> <<>>,
                 rows |-> body]
    /\ \E a \in RawTemplates :
          t = [exists |-> TRUE, raw_file |-> NoFile, raw_adapted_template |-> a,
               adapted_template |-> Parse(a).nodes, position |-> 0]
    /\ ret = NoRet
    /\ panicked = FALSE
    /\ calls = NoCalls
    /\ memo = {}
    /\ caller = NoCaller
    /\ renderers = <<>>

NextRaw ==
    \/ TemplateNext
    \/ ExecuteAll

SpecRaw == InitRaw /\ [][NextRaw]_vars

----------------------------------------------------------------------------
(* Renderers sharing a dataset.  Each goroutine holds one Template built   *)
(* over the same *CSV and calls Next on it, again and again; the           *)
(* statements of its Next run interleaved with those of the others.        *)

MaxRenderers == 2

\* The templates the renderers are built from:   x   {{a}}x   {{ c }}
SharedTemplates == { <<120>>,
                     <<123, 123, 97, 125, 125, 120>>,
                     <<123, 123, 32, 99, 32, 125, 125>> }

\* The tables the shared dataset is read from: MaxCols columns, every row as
\* long as the header.
SharedTables ==
    { <<h>> \o BodyOf([r \in 1..k |-> MaxCols]) :
         h \in {x \in Headers : Len(x) = MaxCols}, k \in 0..MaxRows }

\* A goroutine about to call Next on the Template tpl.  pc is where it is in
\* Next: "idle" outside the call, "advance" before t.position++, "execute"
\* before the row is cloned; index is the local of that name, ret what its
\* last Next returned.  yielded is history: the rows its Next calls returned
\* with a nil error, in call order.
Renderer(tpl) == [t |-> tpl, pc |-> "idle", index |-> 0, ret |-> NoRet, yielded |-> <<>>]

InitShared ==
    /\ input \in SharedTables
    /\ tmpl = NoBytes
    /\ t = NoTemplate
    /\ ret = NoRet
    /\ panicked = FALSE
    /\ calls = NoCalls
    /\ memo = {}
    /\ caller = NoCaller
    /\ \E sorted \in SortedHeaders(Head(input)), bs \in [1..MaxRenderers -> SharedTemplates] :
         LET built == [i \in 1..MaxRenderers |->
                          NewTemplateResult(<<102>>, <<116>>, bs[i], sorted)]
         IN  /\ \A i \in 1..MaxRenderers : built[i].status = "ok"
             /\ csv = [NewCSVResult(<<102>>, <<116>>, input).csv EXCEPT
                          !.sorted_header = IF \E i \in 1..MaxRenderers : built[i].looked
                                            THEN sorted ELSE <<>>]
             /\ renderers = [i \in 1..MaxRenderers |-> Renderer(built[i].t)]

\* t.position++ moving the cursor of every Template over the dataset.
Advance_AllCursors(rs, i) ==
    [j \in DOMAIN rs |-> IF j = i THEN [rs[j] EXCEPT !.t.position = @ + 1, !.pc = "execute"]
                         ELSE [rs[j] EXCEPT !.t.position = @ + 1]]

\* t.position++ in the Next of renderer i.
Advance(rs, i) == [rs EXCEPT ![i].t.position = @ + 1, ![i].pc = "execute"]

\* Renderer i calls Next: index := t.position, and the return of io.EOF when
\* index is past the last row.
NextEnter(i) ==
    /\ renderers[i].pc = "idle"
    /\ LET index == renderers[i].t.position
       IN  IF index >= Len(csv.rows)
           THEN renderers' = [renderers EXCEPT
                                 ![i].index = index,
                                 ![i].ret = [NoRet EXCEPT !.op = "Next", !.err = ErrEOF]]
           ELSE renderers' = [renderers EXCEPT ![i].index = index, ![i].pc = "advance"]
    /\ UNCHANGED <<input, tmpl, csv, t, ret, panicked, calls, memo, caller>>

NextAdvance(i) ==
    /\ renderers[i].pc = "advance"
    /\ renderers' = Advance(renderers, i)
    /\ UNCHANGED <<input, tmpl, csv, t, ret, panicked, calls, memo, caller>>

\* The rest of Next: the row at index is cloned, the template executed on
\* it, and both are returned.
NextReturn(i) ==
    /\ renderers[i].pc = "execute"
    /\ LET csvrow == csv.rows[renderers[i].index + 1]
           run    == Execute(renderers[i].t.adapted_template, csvrow, <<>>)
       IN  renderers' = [renderers EXCEPT
                            ![i].pc = "idle",
                            ![i].ret = [NoRet EXCEPT !.op = "Next", !.err = run.err,
                                                     !.out = run.out, !.row = csvrow],
                            ![i].yielded = IF run.err = NoErr THEN Append(@, csvrow) ELSE @]
    /\ UNCHANGED <<input, tmpl, csv, t, ret, panicked, calls, memo, caller>>

NextShared ==
    \E i \in DOMAIN renderers :
        \/ NextEnter(i)
        \/ NextAdvance(i)
        \/ NextReturn(i)

SpecShared == InitShared /\ [][NextShared]_vars

----------------------------------------------------------------------------
(* The adapter on single actions written in many ways: a name, or a text   *)
(* close to a name, between bytes that strings.Trim may or may not remove. *)

\* The header names:   a   "a c"   c
TrimNames   == { <<97>>, <<97, 32, 99>>, <<99>> }
TrimHeaders == UNION {[1..n -> TrimNames] : n \in 1..MaxCols}

\* The texts inside the actions:
\*   a   c   A   "a c"   "a\r"   "a|c"   "f a"
Cores == { <<97>>, <<99>>, <<65>>, <<97, 32, 99>>, <<97, 13>>, <<97, 124, 99>>,
           <<102, 32, 97>> }

\* What is written before and after the text: nothing; a space on each side;
\* a '.' before; " \t\n." before and ". \n" after; a '}' before.
Wraps == { << <<>>, <<>> >>,
           << <<32>>, <<32>> >>,
           << <<46>>, <<>> >>,
           << <<32, 9, 10, 46>>, <<46, 32, 10>> >>,
           << <<125>>, <<>> >> }

Wrapped(w, c) == OpenDelim \o w[1] \o c \o w[2] \o CloseDelim

TrimTemplates == {Wrapped(w, c) : w \in Wraps, c \in Cores}

InitTrim ==
    /\ input \in {<<h>> : h \in TrimHeaders}
    /\ tmpl = NoBytes
    /\ csv = NewCSVResult(<<102>>, <<116>>, input).csv
    /\ t = NoTemplate
    /\ ret = NoRet
    /\ panicked = FALSE
    /\ calls = NoCalls
    /\ memo = {}
    /\ caller = NoCaller
    /\ renderers = <<>>

NextTrim ==
    \E b \in (IF tmpl.read THEN {tmpl.b} ELSE TrimTemplates) : AdaptTemplateToCSV(b)

SpecTrim == InitTrim /\ [][NextTrim]_vars

----------------------------------------------------------------------------
(* The caller's side.  The caller keeps the byte buffer it handed to       *)
(* NewCSV and the rows Next and ExecuteAll returned, and may write to      *)
(* them between calls; a write to a slice goes to its backing array, and   *)
(* shows in every slice on that array.                                     *)

\* The templates of the caller:   x{{a}}   {{ c }}
CallerTemplates == { <<120, 123, 123, 97, 125, 125>>,
                     <<123, 123, 32, 99, 32, 125, 125>> }

\* The keys the caller looks up:   a   d
CallerKeys == { <<97>>, <<100>> }

\* The caller's buffer with every field overwritten by "x".
Scribbled(records) ==
    [i \in 1..Len(records) |-> [c \in 1..Len(records[i]) |-> <<120>>]]

\* The caller overwrites the buffer it built the dataset from.
MutateInput ==
    /\ ~panicked
    /\ csv.exists
    /\ input # Scribbled(input)
    /\ input' = Scribbled(input)
    /\ csv' = IF caller.b = -1 THEN [csv EXCEPT !.file.b = input'] ELSE csv
    /\ UNCHANGED <<tmpl, t, ret, panicked, calls, memo, caller, renderers>>

\* The caller overwrites the first field of the j-th row the last call
\* returned.
MutateRow(j) ==
    /\ ~panicked
    /\ j \in 1..Len(caller.rows)
    /\ LET held == IF ret.op = "Next" THEN ret.row ELSE ret.rows[j]
           new  == [held EXCEPT ![1] = <<120>>]
       IN  /\ held # new
           /\ ret' = IF ret.op = "Next" THEN [ret EXCEPT !.row = new]
                     ELSE [ret EXCEPT !.rows[j] = new]
           /\ csv' = IF caller.rows[j] >= 1
                     THEN [csv EXCEPT !.rows[caller.rows[j]] = new]
                     ELSE csv
    /\ UNCHANGED <<input, tmpl, t, panicked, calls, memo, caller, renderers>>

NextCaller ==
    \/ NewCSV(<<102>>, <<116>>)
    \/ \E key \in CallerKeys : FindKeyIndex(key)
    \/ \E b \in (IF tmpl.read THEN {tmpl.b} ELSE CallerTemplates) : AdaptTemplateToCSV(b)
    \/ \E b \in (IF tmpl.read THEN {tmpl.b} ELSE CallerTemplates) :
          NewTemplate(<<102>>, <<116>>, b)
    \/ TemplateNext
    \/ ExecuteAll
    \/ MutateInput
    \/ \E j \in 1..MaxRows : MutateRow(j)

SpecCaller == Init /\ [][NextCaller]_vars

----------------------------------------------------------------------------
(* The vocabulary of the properties: a template read by positions.         *)

Range(s) == {s[i] : i \in 1..Len(s)}

\* The actions of template b from position from on, in order: open is where
\* an action's "{{" starts, the first at or after the end of the action
\* before, and close where its "}}" starts, the first after the "{{" (0 when
\* the template ends without one, which ends the list).
RECURSIVE Pieces(_, _)
Pieces(b, from) ==
    LET o == FirstAt(b, OpenDelim, from)
    IN  IF o = 0 THEN <<>>
        ELSE LET c == FirstAt(b, CloseDelim, o + 2)
             IN  IF c = 0 THEN <<[open |-> o, close |-> 0]>>
                 ELSE <<[open |-> o, close |-> c]>> \o Pieces(b, c + 2)

\* The trimmed name of a closed action: the bytes between its delimiters
\* without the surrounding spaces, tabs, newlines, '.' and '}'.
NameOf(b, p) == Trim(SubSeq(b, p.open + 2, p.close - 1), {32, 9, 10, 46, 125})

\* Template b has a closed action whose trimmed name is no column of header.
NamesAbsentColumn(b, header) ==
    \E i \in 1..Len(Pieces(b, 1)) :
        /\ Pieces(b, 1)[i].close # 0
        /\ NameOf(b, Pieces(b, 1)[i]) \notin Range(header)

\* The name key occurs more than once in the header.
Repeated(header, key) ==
    \E i, j \in 1..Len(header) : i # j /\ header[i] = key /\ header[j] = key

\* Every action of template b is closed and names a column of header.
WellFormed(b, header) ==
    \A i \in 1..Len(Pieces(b, 1)) :
        /\ Pieces(b, 1)[i].close # 0
        /\ NameOf(b, Pieces(b, 1)[i]) \in Range(header)

\* The ways to give each action of b a position (from 1) of header that holds
\* the action's name.
Picks(b, header) ==
    {f \in [1..Len(Pieces(b, 1)) -> 1..Len(header)] :
        \A i \in 1..Len(Pieces(b, 1)) : header[f[i]] = NameOf(b, Pieces(b, 1)[i])}

\* Template b with its i-th action, from "{{" through "}}", replaced by
\* subst[i] and every byte outside the actions kept.
RECURSIVE ReplacedFrom(_, _, _, _)
ReplacedFrom(b, ps, subst, i) ==
    LET from == IF i = 1 THEN 1 ELSE ps[i - 1].close + 2
    IN  IF i > Len(ps) THEN SubSeq(b, from, Len(b))
        ELSE SubSeq(b, from, ps[i].open - 1) \o subst[i] \o ReplacedFrom(b, ps, subst, i + 1)

Replaced(b, subst) == ReplacedFrom(b, Pieces(b, 1), subst, 1)

\* The action " index . i }}" for a position i below 100, in bytes.
RewrittenAction(i) ==
    <<32, 105, 110, 100, 101, 120, 32, 46, 32>>
      \o (IF i < 10 THEN <<48 + i>> ELSE <<48 + (i \div 10), 48 + (i % 10)>>)
      \o <<32, 125, 125>>

\* Some "{{" of b has no "}}" after it.
DanglingOpen(b) ==
    \E o \in 1..(Len(b) - 1) :
        /\ b[o] = 123 /\ b[o + 1] = 123
        /\ FirstAt(b, <<125, 125>>, o + 2) = 0

----------------------------------------------------------------------------
(* C1 *)

\* C1: whenever the template handed to AdaptTemplateToCSV, or to NewTemplate
\* with a valid name and mimetype, has a placeholder whose trimmed name is no
\* header column, the call fails with ErrInvalidTemplate and returns nil
\* bytes / a nil Template, wherever the name sorts among the header names.
C1_AbsentNameIsInvalidTemplate ==
    ( /\ ret.op \in {"AdaptTemplateToCSV", "NewTemplate"}
      /\ ret.err # ErrInvalidFile
      /\ NamesAbsentColumn(ret.arg, csv.header) )
    => ( /\ ret.err = ErrInvalidTemplate
         /\ ret.out = <<>>
         /\ ~t.exists
         /\ ~panicked )

\* The part of C1 the code keeps: an absent name that sorts before some header
\* name is rejected with ErrInvalidTemplate and nothing is returned.
C1_AbsentNameNotLast ==
    ( /\ ret.op \in {"AdaptTemplateToCSV", "NewTemplate"}
      /\ ret.err # ErrInvalidFile
      /\ \E i \in 1..Len(Pieces(ret.arg, 1)) :
            /\ Pieces(ret.arg, 1)[i].close # 0
            /\ NameOf(ret.arg, Pieces(ret.arg, 1)[i]) \notin Range(csv.header)
      /\ \A i \in 1..Len(Pieces(ret.arg, 1)) :
            Pieces(ret.arg, 1)[i].close # 0 =>
              \E h \in Range(csv.header) :
                 ~Less(h, NameOf(ret.arg, Pieces(ret.arg, 1)[i])) )
    => ( /\ ret.err = ErrInvalidTemplate
         /\ ret.out = <<>>
         /\ ~t.exists
         /\ ~panicked )

----------------------------------------------------------------------------
(* C2 *)

\* C2: every FindKeyIndex call returns normally: a position p in 0..n-1 with
\* header[p] = key when some header entry equals key, and -1 when none does.
C2_FindKeyIndexTotal ==
    ret.op = "FindKeyIndex"
    => ( /\ ~panicked
         /\ IF ret.arg \in Range(csv.header)
            THEN /\ ret.index \in 0..(Len(csv.header) - 1)
                 /\ csv.header[ret.index + 1] = ret.arg
            ELSE ret.index = -1 )

\* The part of C2 the code keeps: a key that is not greater than every header
\* name is found at one of its positions, or reported absent with -1.
C2_FindKeyIndexNotLast ==
    ( /\ ret.op = "FindKeyIndex"
      /\ \E h \in Range(csv.header) : ~Less(h, ret.arg) )
    => ( /\ ~panicked
         /\ IF ret.arg \in Range(csv.header)
            THEN /\ ret.index \in 0..(Len(csv.header) - 1)
                 /\ csv.header[ret.index + 1] = ret.arg
            ELSE ret.index = -1 )

----------------------------------------------------------------------------
(* C3 *)

\* C3: NewTemplate (given a valid name and mimetype) succeeds on every
\* template whose actions are all closed and name header columns, and each
\* row Next renders is the template text with every action, from "{{"
\* through "}}", replaced by the row's field at a position where the header
\* holds the action's name, every other byte unchanged.
C3_RendersRowByName ==
    /\ ( /\ ret.op = "NewTemplate"
         /\ ret.err # ErrInvalidFile
         /\ WellFormed(ret.arg, csv.header) )
       => (ret.err = NoErr /\ t.exists /\ ~panicked)
    /\ ( /\ ret.op = "Next"
         /\ ret.err # ErrEOF )
       => /\ ret.err = NoErr
          /\ WellFormed(t.raw_file.b, csv.header)
          /\ \E f \in Picks(t.raw_file.b, csv.header) :
                ret.out = Replaced(t.raw_file.b,
                                   [i \in DOMAIN f |-> csv.rows[calls.from + 1][f[i]]])

\* A row rendered through two actions over a header whose order is not the
\* sorted one.
C3_Witness ==
    /\ ret.op = "Next" /\ ret.err = NoErr
    /\ Len(Pieces(t.raw_file.b, 1)) = 2
    /\ Len(csv.header) = 2
    /\ Less(csv.header[2], csv.header[1])
    /\ NameOf(t.raw_file.b, Pieces(t.raw_file.b, 1)[1]) = csv.header[2]
    /\ NameOf(t.raw_file.b, Pieces(t.raw_file.b, 1)[2]) = csv.header[1]
    /\ calls.from = 1

----------------------------------------------------------------------------
(* C4 *)

\* C4: on a Template on which only Next has been called, over a dataset of N
\* rows, call k returns row k-1 of the table with a nil error for k <= N, and
\* the io.EOF error with nil output and nil row for every k > N.
C4_NextYieldsRowsInOrder ==
    ( /\ t.exists
      /\ ret.op = "Next"
      /\ calls.all = 0 )
    => IF calls.next <= Len(input) - 1
       THEN /\ ret.err = NoErr
            /\ ret.row = input[calls.next + 1]
       ELSE /\ ret.err = ErrEOF
            /\ ret.out = <<>>
            /\ ret.row = <<>>

\* The second call past the last of two rows.
C4_Witness ==
    /\ t.exists /\ ret.op = "Next" /\ calls.all = 0
    /\ Len(csv.rows) = 2
    /\ calls.next = Len(csv.rows) + 2
    /\ ret.err = ErrEOF

----------------------------------------------------------------------------
(* C5 *)

\* C5: when some "{{" of the template has no "}}" after it and every closed
\* action names a header column, AdaptTemplateToCSV (and NewTemplate, given a
\* valid name and mimetype) fails with ErrInvalidTemplate and returns nil
\* bytes (no Template), never a prefix of the adapted output.
C5_UnterminatedActionIsInvalid ==
    ( /\ ret.op \in {"AdaptTemplateToCSV", "NewTemplate"}
      /\ ret.err # ErrInvalidFile
      /\ DanglingOpen(ret.arg)
      /\ \A i \in 1..Len(Pieces(ret.arg, 1)) :
            Pieces(ret.arg, 1)[i].close # 0 =>
               NameOf(ret.arg, Pieces(ret.arg, 1)[i]) \in Range(csv.header) )
    => ( /\ ret.err = ErrInvalidTemplate
         /\ ret.out = <<>>
         /\ ~t.exists
         /\ ~panicked )

\* An unterminated action after an action that resolved.
C5_Witness ==
    /\ ret.op = "AdaptTemplateToCSV"
    /\ DanglingOpen(ret.arg)
    /\ Len(Pieces(ret.arg, 1)) = 2
    /\ Pieces(ret.arg, 1)[1].close # 0
    /\ NameOf(ret.arg, Pieces(ret.arg, 1)[1]) \in Range(csv.header)
    /\ ret.err = ErrInvalidTemplate

----------------------------------------------------------------------------
(* C6 *)

\* What Next returns with the cursor at position p.
NextAt(p) == NextResult(t.adapted_template, p, csv.rows)

\* C6: ExecuteAll entered with the cursor at k over N rows: when Next
\* succeeds on every row from k on, it returns their N - k outputs and rows in
\* row order with a nil error; when Next fails on some row, it returns the
\* error of the first such row j with the outputs and rows of rows k..j-1
\* only, and the cursor stays right after row j (no further Next call).
C6_ExecuteAllCollectsUntilError ==
    ret.op = "ExecuteAll"
    => LET k     == calls.from
           N     == Len(csv.rows)
           fails == {j \in k..(N - 1) : NextAt(j).err # NoErr}
           stop  == IF fails = {} THEN N
                    ELSE CHOOSE j \in fails : \A i \in fails : j <= i
       IN  /\ ret.rows = [i \in 1..(stop - k) |-> csv.rows[k + i]]
           /\ ret.outs = [i \in 1..(stop - k) |-> NextAt(k + i - 1).out]
           /\ IF fails = {}
              THEN ret.err = NoErr /\ t.position = N
              ELSE ret.err = NextAt(stop).err /\ ret.err # ErrEOF /\ t.position = stop + 1

\* ExecuteAll stopped by an error after it had collected a row.
C6_Witness ==
    /\ ret.op = "ExecuteAll"
    /\ ret.err = ErrExec
    /\ Len(ret.rows) = 1 /\ Len(ret.outs) = 1
    /\ calls.from = 0
    /\ t.position = 2

\* ExecuteAll running to exhaustion over the rows a Next call left.
C6_WitnessExhausted ==
    /\ ret.op = "ExecuteAll"
    /\ ret.err = NoErr
    /\ calls.from = 1
    /\ Len(ret.rows) = 1
    /\ Len(csv.rows) = 2

----------------------------------------------------------------------------
(* C7 *)

\* C7: the cursor of a Template is always within 0..rowCount, is below
\* rowCount on creation exactly when there are rows, never decreases, and
\* once it equals rowCount no call makes it differ from rowCount again.
C7_CursorBoundedMonotone ==
    [][ /\ t'.exists => (0 <= t'.position /\ t'.position <= Len(csv'.rows))
        /\ (~t.exists /\ t'.exists)
              => ((t'.position < Len(csv'.rows)) <=> (Len(csv'.rows) > 0))
        /\ t.exists => (t'.exists /\ t'.position >= t.position)
        /\ (t.exists /\ t.position = Len(csv.rows))
              => t'.position = Len(csv'.rows) ]_vars

\* An exhausted Template over two rows on which Next is called again after
\* ExecuteAll.
C7_Witness ==
    /\ t.exists
    /\ Len(csv.rows) = 2
    /\ t.position = 2
    /\ calls.from = 2
    /\ calls.all = 1
    /\ ret.op = "Next"

----------------------------------------------------------------------------
(* C8 *)

\* The table has a body row whose field count is not the header's.
Ragged(records) ==
    \E i \in 2..Len(records) : Len(records[i]) # Len(records[1])

\* C8: NewCSV (given a valid name and mimetype) fails with ErrInvalidCSV and
\* returns no dataset on every table with a body row whose field count is
\* not the header's; a dataset it returns holds the header and the body rows
\* of the table in order, each row as long as the header.
C8_RaggedTableIsInvalid ==
    /\ (ret.op = "NewCSV" /\ ret.err # ErrInvalidFile /\ Ragged(input))
          => (ret.err = ErrInvalidCSV /\ ~csv.exists)
    /\ csv.exists
          => /\ csv.header = input[1]
             /\ csv.rows = Tail(input)
             /\ \A i \in 1..Len(csv.rows) : Len(csv.rows[i]) = Len(csv.header)

\* A table refused for its last row alone.
C8_Witness ==
    /\ ret.op = "NewCSV"
    /\ ret.err = ErrInvalidCSV
    /\ Len(input) = 3
    /\ Len(input[2]) = Len(input[1])
    /\ Len(input[3]) # Len(input[1])

----------------------------------------------------------------------------
(* C9 *)

\* C9: the bytes a successful AdaptTemplateToCSV returns are the template
\* with the bytes outside the actions, each "{{" included, kept in order and
\* the rest of each action through its "}}" replaced by " index . i }}", i
\* being a position where the header holds the action's trimmed name; a
\* template without "{{" is returned unchanged.
C9_AdaptedOutputShape ==
    (ret.op = "AdaptTemplateToCSV" /\ ret.err = NoErr)
    => /\ WellFormed(ret.arg, csv.header)
       /\ \E f \in Picks(ret.arg, csv.header) :
             ret.out = Replaced(ret.arg,
                                [i \in DOMAIN f |-> <<123, 123>> \o RewrittenAction(f[i] - 1)])
       /\ FirstAt(ret.arg, <<123, 123>>, 1) = 0 => ret.out = ret.arg

\* An adapted template with text before an action found in the second column.
C9_Witness ==
    /\ ret.op = "AdaptTemplateToCSV" /\ ret.err = NoErr
    /\ Len(Pieces(ret.arg, 1)) = 1
    /\ Pieces(ret.arg, 1)[1].open > 1
    /\ ret.out = SubSeq(ret.arg, 1, Pieces(ret.arg, 1)[1].open + 1)
                   \o <<32, 105, 110, 100, 101, 120, 32, 46, 32, 49, 32, 125, 125>>

\* A template ending in a lone "{" adapted to itself.
C9_WitnessLoneBrace ==
    /\ ret.op = "AdaptTemplateToCSV" /\ ret.err = NoErr
    /\ Len(ret.arg) > 0
    /\ ret.arg[Len(ret.arg)] = 123
    /\ ret.out = ret.arg

----------------------------------------------------------------------------
(* C10 *)

\* C10: every FindKeyIndex lookup of a name that occurs more than once in
\* the header returns the position the first lookup of that name returned,
\* and the header holds the name at that position.
C10_RepeatedNameSamePosition ==
    (ret.op = "FindKeyIndex" /\ Repeated(csv.header, ret.arg))
    => /\ <<ret.arg, ret.index>> \in memo
       /\ \A m \in memo : m[1] = ret.arg => m[2] = ret.index
       /\ ret.index \in 0..(Len(csv.header) - 1)
       /\ csv.header[ret.index + 1] = ret.arg
       /\ ~panicked

\* A lookup of a repeated name answered with the later of its positions, the
\* one the first lookup of the name returned.
C10_Witness ==
    /\ ret.op = "FindKeyIndex"
    /\ Repeated(csv.header, ret.arg)
    /\ <<ret.arg, 1>> \in memo
    /\ ret.index = 1
    /\ csv.sorted_header[1].index = 1

----------------------------------------------------------------------------
(* C11 *)

\* C11: with the Next calls of the Templates over one dataset interleaved in
\* any way, every step leaves the dataset (header, rows, built index) and
\* every Template but the one stepping as they were, and each Template's Next
\* calls return the rows of the dataset in order, each once, and io.EOF only
\* once every row has been returned.
C11_RenderersIndependent ==
    [][ /\ csv' = csv
        /\ csv'.header = Head(input) /\ csv'.rows = Tail(input)
        /\ \E i \in DOMAIN renderers :
              \A j \in DOMAIN renderers \ {i} : renderers'[j] = renderers[j]
        /\ \A i \in DOMAIN renderers' :
              LET r == renderers'[i]
              IN  /\ r.yielded = SubSeq(input, 2, Len(r.yielded) + 1)
                  /\ Len(r.yielded) <= Len(input) - 1
                  /\ (r.ret.op = "Next" /\ r.ret.err = ErrEOF)
                       => (r.yielded = Tail(input) /\ r.pc = "idle")
                  /\ (r.ret.op = "Next" /\ r.ret.err # ErrEOF /\ r.pc = "idle")
                       => /\ r.ret.err = NoErr
                          /\ r.ret.row = input[Len(r.yielded) + 1]
                  /\ r.pc = "idle" => r.t.position = Len(r.yielded) ]_vars

\* One renderer has returned both rows and io.EOF while another is inside its
\* first Next call, past the cursor increment.
C11_Witness ==
    /\ Len(renderers) >= 2
    /\ Len(csv.rows) = 2
    /\ renderers[1].ret.err = ErrEOF
    /\ renderers[1].yielded = csv.rows
    /\ renderers[2].pc = "execute"
    /\ renderers[2].index = 0
    /\ renderers[2].yielded = <<>>

----------------------------------------------------------------------------
(* C12 *)

\* C12: a Next call entered with the cursor below the row count returns the
\* row at the cursor and leaves the cursor one further, whether the execution
\* of the template succeeded or failed; a Next call entered with the cursor at
\* the row count returns io.EOF and leaves the cursor where it was; and no
\* call moves the cursor back, so a row once consumed is not returned again.
C12_NextAdvancesBeforeExecuting ==
    [][ /\ t'.position >= t.position
        /\ ret'.op = "Next"
             => IF t.position < Len(csv.rows)
                THEN /\ t'.position = t.position + 1
                     /\ ret'.err \in {NoErr, ErrExec}
                     /\ ret'.row = csv.rows[t.position + 1]
                ELSE /\ t'.position = t.position
                     /\ t.position = Len(csv.rows)
                     /\ ret'.err = ErrEOF ]_vars

\* Two Next calls in a row whose execution failed, each having consumed a row.
C12_Witness ==
    /\ ret.op = "Next"
    /\ ret.err = ErrExec
    /\ calls.prev = <<"Next", ErrExec>>
    /\ calls.from = 1
    /\ t.position = 2

----------------------------------------------------------------------------
(* C13 *)

\* C13: an action whose text is a header name n between bytes of the set
\* {space, tab, newline, '.', '}'} adapts to the action " index . i }}" that
\* the plain {{n}} adapts to, i being a position of n in the header; an action
\* whose text between such bytes is not a header name (another case, an inner
\* space, a carriage return, a pipe, a function call) is rejected with
\* ErrInvalidTemplate and nil bytes.
C13_TrimmedTextIsTheName ==
    ret.op = "AdaptTemplateToCSV"
    => \A w \in Wraps, c \in Cores :
          ret.arg = Wrapped(w, c)
          => IF c \in Range(csv.header)
             THEN /\ ret.err = NoErr
                  /\ \E i \in 1..Len(csv.header) :
                        /\ csv.header[i] = c
                        /\ ret.out = <<123, 123>> \o RewrittenAction(i - 1)
                  /\ ret.out = AdaptTemplateToCSVResult(<<123, 123>> \o c \o <<125, 125>>,
                                                        csv.sorted_header).out
             ELSE /\ ret.err = ErrInvalidTemplate
                  /\ ret.out = <<>>
                  /\ ~panicked

\* The part of C13 the code keeps: the same, with the rejection only of
\* texts that are not greater than every header name.
C13_TrimmedTextNotLast ==
    ret.op = "AdaptTemplateToCSV"
    => \A w \in Wraps, c \in Cores :
          ret.arg = Wrapped(w, c)
          => IF c \in Range(csv.header)
             THEN /\ ret.err = NoErr
                  /\ \E i \in 1..Len(csv.header) :
                        /\ csv.header[i] = c
                        /\ ret.out = <<123, 123>> \o RewrittenAction(i - 1)
                  /\ ret.out = AdaptTemplateToCSVResult(<<123, 123>> \o c \o <<125, 125>>,
                                                        csv.sorted_header).out
             ELSE (\E h \in Range(csv.header) : ~Less(h, c))
                  => /\ ret.err = ErrInvalidTemplate
                     /\ ret.out = <<>>
                     /\ ~panicked

----------------------------------------------------------------------------
(* C14 *)

\* C14: once NewCSV has returned a dataset, no call of FindKeyIndex,
\* AdaptTemplateToCSV, NewTemplate, Next or ExecuteAll and no write by the
\* caller to its byte buffer or to a row it was returned changes the header
\* or a stored row of the dataset; and each row Next or ExecuteAll returns
\* equals the stored row of its position at the call and is a slice on an
\* array of its own.
C14_DatasetImmutable ==
    [][ /\ csv.exists
           => (csv'.exists /\ csv'.header = csv.header /\ csv'.rows = csv.rows)
        /\ (ret'.op = "Next" /\ t'.position > t.position)
           => /\ ret'.row = csv.rows[t.position + 1]
              /\ caller'.rows = <<0>>
        /\ (ret'.op = "ExecuteAll" /\ t'.position > t.position)
           => /\ Len(ret'.rows) = t'.position - t.position
              /\ Len(caller'.rows) = Len(ret'.rows)
              /\ \A i \in 1..Len(ret'.rows) :
                    /\ ret'.rows[i] = csv.rows[t.position + i]
                    /\ caller'.rows[i] = 0 ]_vars

\* The caller has overwritten its buffer and a row ExecuteAll returned, after
\* the index was built, and the dataset holds what NewCSV read.
C14_Witness ==
    /\ csv.exists
    /\ ret.op = "ExecuteAll"
    /\ Len(ret.rows) = 2
    /\ ret.rows[2][1] = <<120>>
    /\ csv.rows[2][1] # <<120>>
    /\ input[1][1] = <<120>>
    /\ csv.header[1] # <<120>>
    /\ csv.sorted_header # <<>>

----------------------------------------------------------------------------
(* C15 *)

\* The execution of t's template on row j (from 0) of the dataset.
ExecuteOn(j) == Execute(t.adapted_template, csv.rows[j + 1], <<>>)

\* The first row at or after k whose execution fails, or the row count.
StopFrom(k) ==
    LET fails == {j \in k..(Len(csv.rows) - 1) : ExecuteOn(j).err # NoErr}
    IN  IF fails = {} THEN Len(csv.rows)
        ELSE CHOOSE j \in fails : \A i \in fails : j <= i

\* r holds the rows from k up to the first failing row and their outputs,
\* with that row's error, or all the rows from k on with a nil error.
CollectsFrom(r, k) ==
    /\ r.rows = [i \in 1..(StopFrom(k) - k) |-> csv.rows[k + i]]
    /\ r.outs = [i \in 1..(StopFrom(k) - k) |-> ExecuteOn(k + i - 1).out]
    /\ r.err = IF StopFrom(k) = Len(csv.rows) THEN NoErr ELSE ExecuteOn(StopFrom(k)).err

\* C15: an ExecuteAll call after k Next calls on a Template over N rows
\* (k <= N) returns the rows k..N-1 and their outputs, not the rows before;
\* an ExecuteAll call right after one that returned a nil error, or after
\* Next returned io.EOF, returns no rows, no outputs and a nil error; and an
\* ExecuteAll call right after one that returned the error of row j collects
\* from row j + 1 on.
C15_ExecuteAllSharesCursor ==
    [][ ret'.op = "ExecuteAll"
        => /\ (calls.all = 0 /\ calls.next <= Len(csv.rows))
                => CollectsFrom(ret', calls.next)
           /\ ((ret.op = "ExecuteAll" /\ ret.err = NoErr) \/ ret.err = ErrEOF)
                => (ret'.rows = <<>> /\ ret'.outs = <<>> /\ ret'.err = NoErr)
           /\ (ret.op = "ExecuteAll" /\ ret.err \notin {NoErr, ErrEOF})
                => CollectsFrom(ret', calls.from + Len(ret.rows) + 1) ]_vars

\* ExecuteAll returned the error of row 0 and, called again, the row after.
C15_Witness ==
    /\ ret.op = "ExecuteAll"
    /\ calls.prev = <<"ExecuteAll", ErrExec>>
    /\ calls.from = 1
    /\ Len(ret.rows) = 1
    /\ ret.rows[1] = csv.rows[2]
    /\ ret.err = NoErr

\* ExecuteAll after one successful Next over two rows returned the second.
C15_WitnessAfterNext ==
    /\ ret.op = "ExecuteAll"
    /\ calls.prev = <<"Next", NoErr>>
    /\ calls.from = 1
    /\ Len(csv.rows) = 2
    /\ ret.rows = <<csv.rows[2]>>

----------------------------------------------------------------------------
(* C16 *)

\* The positions the actions of t's adapted template index the row at.
IndexesOf(nodes) == {nodes[k].index : k \in {x \in 1..Len(nodes) : nodes[x].kind = "index"}}

\* C16: in every Template NewTemplate returns, each action of the template
\* has become an action indexing a position i with 0 <= i < len(header);
\* every row of the dataset is as long as the header; and no Next call
\* (ExecuteAll's included) reports a failed execution.
C16_IndexesWithinRows ==
    t.exists
    => /\ \A i \in IndexesOf(t.adapted_template) : 0 <= i /\ i < Len(csv.header)
       /\ Cardinality({k \in 1..Len(t.adapted_template) :
                          t.adapted_template[k].kind = "index"})
             = Len(Pieces(t.raw_file.b, 1))
       /\ t.adapted_template = Parse(t.raw_adapted_template).nodes
       /\ \A r \in 1..Len(csv.rows) : Len(csv.rows[r]) = Len(csv.header)
       /\ \A r \in 1..Len(csv.rows) :
             Execute(t.adapted_template, csv.rows[r], <<>>).err = NoErr
       /\ ret.op = "Next" => ret.err \in {NoErr, ErrEOF}
       /\ ret.op = "ExecuteAll" => ret.err = NoErr

\* Next rendered the last row through an action on the last column.
C16_Witness ==
    /\ t.exists
    /\ ret.op = "Next" /\ ret.err = NoErr
    /\ Len(csv.header) = 2
    /\ Len(csv.header) - 1 \in IndexesOf(t.adapted_template)
    /\ Len(csv.rows) = 2
    /\ calls.from = Len(csv.rows) - 1

----------------------------------------------------------------------------
(* C17 *)

\* Where a single forward scan of template b stops: after the "}}" of the
\* first closed action whose name is no column of header, or else at the end
\* of b (every action resolved, or the last "{{" never closed).
ScanEnd(b, header) ==
    LET ps  == Pieces(b, 1)
        bad == {i \in 1..Len(ps) : ps[i].close # 0 /\ NameOf(b, ps[i]) \notin Range(header)}
    IN  IF bad = {} THEN Len(b)
        ELSE ps[CHOOSE i \in bad : \A j \in bad : i <= j].close + 1

\* C17: every AdaptTemplateToCSV call returns, with the adapted bytes or with
\* ErrInvalidTemplate, having taken from its reader, one byte at a time and
\* none twice, no more than the bytes of the template: those up to the end of
\* the first action it rejects, each "{{" and "}}" being the first after the
\* delimiter before, or all of them.
C17_SingleForwardPass ==
    ret.op = "AdaptTemplateToCSV"
    => /\ ret.err \in {NoErr, ErrInvalidTemplate}
       /\ ~panicked
       /\ ret.reads <= Len(ret.arg)
       /\ ret.reads = ScanEnd(ret.arg, csv.header)

\* The part of C17 the code keeps: the scan reads the template once, front
\* to back, and stops where C17 says, however the call ends.
C17_ScanReadsOnce ==
    ret.op = "AdaptTemplateToCSV"
    => /\ ret.reads <= Len(ret.arg)
       /\ ret.reads = ScanEnd(ret.arg, csv.header)
       /\ ret.err \in {NoErr, ErrInvalidTemplate, ErrPanic}
       /\ ret.err = NoErr => ret.reads = Len(ret.arg)

----------------------------------------------------------------------------
(* C18 *)

\* The index holds one (name, position) pair for each header entry, the name
\* being the header's at that position, in ascending order of name.
BuiltFrom(sorted, header) ==
    /\ Len(sorted) = Len(header)
    /\ \A p \in 0..(Len(header) - 1) :
          Cardinality({i \in 1..Len(sorted) : sorted[i].index = p}) = 1
    /\ \A i \in 1..Len(sorted) :
          /\ sorted[i].index \in 0..(Len(header) - 1)
          /\ sorted[i].key = header[sorted[i].index + 1]
    /\ \A i \in 1..(Len(sorted) - 1) : ~Less(sorted[i + 1].key, sorted[i].key)

\* C18: the header index is unbuilt until the first FindKeyIndex call, which
\* leaves it built from the header; every later FindKeyIndex call, whatever
\* its key and result, leaves the index as it was.
C18_IndexBuiltOnce ==
    [][ /\ (ret.op = "none" /\ csv.exists) => csv.sorted_header = <<>>
        /\ ret'.op = "FindKeyIndex" => BuiltFrom(csv'.sorted_header, csv'.header)
        /\ csv.sorted_header # <<>> => csv'.sorted_header = csv.sorted_header
        /\ csv'.header = csv.header ]_vars

\* A third key looked up on an index whose order is not the header's.
C18_Witness ==
    /\ ret.op = "FindKeyIndex"
    /\ Cardinality(memo) = 3
    /\ Len(csv.header) = 2
    /\ csv.sorted_header[1].index = 1
    /\ Less(csv.sorted_header[1].key, csv.sorted_header[2].key)

====
